---- MODULE Spec2Model ----
(***************************************************************************)
(* State-machine model of src/app.py: the Flask routes /register, /login,  *)
(* /forgot-password, /delete, /users over the MongoDB collection `users`,  *)
(* the JWT decorator login_required, and the /predict upload route.        *)
(*                                                                         *)
(*   Spec        the auth routes, one request handled after another        *)
(*   SpecRace    the auth routes, handlers interleaved between store calls *)
(*   SpecPredict the /predict route, handlers interleaved between          *)
(*               file.save and Image.open                                  *)
(***************************************************************************)
EXTENDS Integers, Sequences, FiniteSets, TLC

VARIABLES
    users,      \* the collection db['users'], in natural (insertion) order
    nextId,     \* next store-assigned _id
    now,        \* datetime.utcnow(), in hours
    issued,     \* tokens handed out by /login (held by clients)
    last,       \* the most recent HTTP response
    regd,       \* history: emails with a successful /register and no successful /delete since
    gone,       \* history: <<email, password>> of a successful /delete, no successful /register of the email since
    th,         \* SpecRace: per worker thread, the handler in progress
    weights,    \* the frozen classifier: image -> index into classes (<<>> before training)
    uploads,    \* files in static/uploads: stored filename -> content
    pw,         \* SpecPredict: per worker thread, the /predict handler in progress
    pout        \* the most recent /predict response

vars == <<users, nextId, now, issued, last, regd, gone, th, weights, uploads, pw, pout>>
authVars == <<users, nextId, now, issued, last, regd, gone, th>>
predictVars == <<weights, uploads, pw, pout>>

----------------------------------------------------------------------------
\* Bounds of the model
MaxTime == 3        \* the clock stops advancing here
MaxIds == 2         \* inserts the store performs in one run
MaxTokens == 1      \* tokens /login may issue in one run

\* timedelta(hours=2)
TOKEN_TTL == 2

----------------------------------------------------------------------------
\* JSON request bodies.  A field that is absent from the body holds Missing;
\* hasJson = FALSE is a request for which request.get_json() gives None.
Missing == "<absent>"
None == "<None>"

Emails == {"e1", "e2"}
Passwords == {"p1", "p2"}
Answers == {"y", "z"}
Salts == {"s1"}
Threads == {"t1", "t2"}

NoJson(fields) == [f \in fields \cup {"hasJson"} |-> IF f = "hasJson" THEN FALSE ELSE Missing]
EmptyJson(fields) == [f \in fields \cup {"hasJson"} |-> IF f = "hasJson" THEN TRUE ELSE Missing]
Dropping(bodies, fields) == {[b EXCEPT ![f] = Missing] : b \in bodies, f \in fields}

RegisterFields == {"name", "email", "password", "q1", "q2"}
RegisterComplete ==
    { [hasJson |-> TRUE, name |-> "n1", email |-> "e1", password |-> "p1", q1 |-> "y", q2 |-> "z"],
      [hasJson |-> TRUE, name |-> "n2", email |-> "e1", password |-> "p2", q1 |-> "z", q2 |-> "y"],
      [hasJson |-> TRUE, name |-> "n2", email |-> "e2", password |-> "p1", q1 |-> "y", q2 |-> "y"] }
RegisterBodies ==
    RegisterComplete \cup Dropping({b \in RegisterComplete : b.name = "n1"}, RegisterFields)
        \cup {NoJson(RegisterFields), EmptyJson(RegisterFields)}

LoginFields == {"email", "password"}
LoginComplete == [hasJson : {TRUE}, email : Emails, password : Passwords]
LoginBodies ==
    LoginComplete \cup Dropping(LoginComplete, LoginFields)
        \cup {NoJson(LoginFields), EmptyJson(LoginFields)}

ForgotFields == {"email", "q1", "q2", "newPass"}
ForgotComplete == [hasJson : {TRUE}, email : Emails, q1 : Answers, q2 : Answers, newPass : Passwords]
ForgotBodies ==
    ForgotComplete
        \cup Dropping({b \in ForgotComplete : b.email = "e1" /\ b.q1 = "y" /\ b.q2 = "z"}, ForgotFields)
        \cup {NoJson(ForgotFields), EmptyJson(ForgotFields)}

DeleteFields == {"email", "password"}
DeleteComplete == [hasJson : {TRUE}, email : Emails \cup {""}, password : Passwords \cup {""}]
DeleteBodies ==
    DeleteComplete \cup Dropping({b \in DeleteComplete : b.email = "e1" /\ b.password = "p1"}, DeleteFields)
        \cup {NoJson(DeleteFields), EmptyJson(DeleteFields)}

\* whether the body lacks one of the endpoint's required fields (or is no JSON)
Lacks(r, fields) == ~r.hasJson \/ \E f \in fields : r[f] = Missing

\* dict.get(key): None for an absent key
get(data, key) == IF data[key] = Missing THEN None ELSE data[key]

\* Python truthiness of a string-or-None value
truthy(v) == v # None /\ v # ""

----------------------------------------------------------------------------
\* bcrypt: the hash carries its salt; checkpw re-hashes with the stored salt
hashpw(password, salt) == [salt |-> salt, digest |-> password]
checkpw(password, hashed) == hashpw(password, hashed.salt) = hashed

----------------------------------------------------------------------------
\* The collection.  find_one gives the position of the first match, 0 for None.
Matches(us, email) == {i \in 1..Len(us) : us[i].email = email}
Min(S) == CHOOSE x \in S : \A y \in S : x <= y
find_one(us, email) == IF Matches(us, email) = {} THEN 0 ELSE Min(Matches(us, email))
insert_one(us, user) == Append(us, user)
update_one(us, email, hashed) ==
    IF find_one(us, email) = 0 THEN us
    ELSE [us EXCEPT ![find_one(us, email)].password = hashed]
\* mutant: the delete matches nothing
delete_one_noop(us, id) == us
delete_one(us, id) ==
    LET F[i \in 0..Len(us)] ==
            IF i = 0 THEN <<>>
            ELSE IF us[i].id = id /\ \A j \in 1..(i-1) : us[j].id # id THEN F[i-1]
            ELSE Append(F[i-1], us[i])
    IN F[Len(us)]

----------------------------------------------------------------------------
\* Tokens and Authorization header values
JWT_SECRET == "secret"
NoHeader == [kind |-> "absent"]
EmptyHeader == [kind |-> "empty"]
Garbage == [kind |-> "garbage"]
NoToken == [kind |-> "none"]
jwt_encode(user, exp) ==
    [kind |-> "jwt", userId |-> user.id, name |-> user.name, exp |-> exp, sig |-> JWT_SECRET]
Forged(tok) == [tok EXCEPT !.sig = "other"]
Headers == {NoHeader, EmptyHeader, Garbage} \cup issued \cup {Forged(t) : t \in issued}

\* jwt.decode: the outcomes the library can give for `token` at time t.  At the
\* expiry instant itself PyJWT 1.x accepts (exp < now fails) and 2.x rejects
\* (exp <= now fails); the handler supports both (it accepts a bytes token).
jwt_decode(token, t) ==
    IF token.kind # "jwt" \/ token.sig # JWT_SECRET THEN {"InvalidTokenError"}
    ELSE IF token.exp < t THEN {"ExpiredSignatureError"}
    ELSE IF token.exp = t THEN {"ExpiredSignatureError", "ok"}
    ELSE {"ok"}

\* mutant: an expired token is answered like a missing one
login_required_401(token, outcome) ==
    IF token = NoHeader \/ token = EmptyHeader THEN [status |-> 401, err |-> "Token missing"]
    ELSE IF outcome = "ExpiredSignatureError" THEN [status |-> 401, err |-> "Token expired"]
    ELSE IF outcome = "InvalidTokenError" THEN [status |-> 403, err |-> "Invalid token"]
    ELSE [status |-> 0, err |-> ""]

\* mutant: the decorator also requires the token's user to exist
login_required_live(token, outcome) ==
    IF token = NoHeader \/ token = EmptyHeader THEN [status |-> 401, err |-> "Token missing"]
    ELSE IF outcome = "ExpiredSignatureError" THEN [status |-> 403, err |-> "Token expired"]
    ELSE IF outcome = "InvalidTokenError" THEN [status |-> 403, err |-> "Invalid token"]
    ELSE IF \A i \in 1..Len(users) : users[i].id # token.userId
        THEN [status |-> 403, err |-> "Invalid token"]
    ELSE [status |-> 0, err |-> ""]

\* the decorator: 0 stands for "call the wrapped view"
login_required(token, outcome) ==
    IF token = NoHeader \/ token = EmptyHeader THEN [status |-> 401, err |-> "Token missing"]
    ELSE IF outcome = "ExpiredSignatureError" THEN [status |-> 403, err |-> "Token expired"]
    ELSE IF outcome = "InvalidTokenError" THEN [status |-> 403, err |-> "Invalid token"]
    ELSE [status |-> 0, err |-> ""]

----------------------------------------------------------------------------
NoRequest == [email |-> Missing, password |-> Missing]

\* jsonify(...), status: what the claims read of a response
Response(op, status, r, token, err) ==
    [op |-> op, status |-> status, email |-> r.email, password |-> r.password,
     token |-> token, err |-> err]

\* an exception escaping a view: Flask answers 500 with an HTML page
Crash(op, r) == Response(op, 500, r, NoToken, "<html>")

Init ==
    /\ users = <<>>
    /\ nextId = 1
    /\ now = 0
    /\ issued = {}
    /\ last = Response("none", 0, NoRequest, NoToken, "")
    /\ regd = {}
    /\ gone = {}
    /\ th = [t \in Threads |-> [pc |-> "idle"]]
    /\ weights = <<>>
    /\ uploads = <<>>
    /\ pw = [t \in Threads |-> [pc |-> "idle"]]
    /\ pout = [status |-> 0, image |-> "", error |-> ""]

----------------------------------------------------------------------------
\* /register

\* mutant: the pre-insert lookup is skipped
register_lookup_nofind(us, r) ==
    IF ~r.hasJson \/ r.email = Missing THEN Crash("register", r)
    ELSE Response("register", 0, r, NoToken, "")

\* lines 159-161: status 0 stands for "go on to the insert"
register_lookup(us, r) ==
    IF ~r.hasJson \/ r.email = Missing THEN Crash("register", r)
    ELSE IF find_one(us, r.email) # 0
        THEN Response("register", 400, r, NoToken, "Email already exists")
    ELSE Response("register", 0, r, NoToken, "")

\* lines 163-173
register_insert(r, salt) ==
    IF Lacks(r, {"password", "name", "q1", "q2"})
    THEN /\ last' = Crash("register", r)
         /\ UNCHANGED <<users, nextId, regd, gone>>
    ELSE /\ nextId <= MaxIds
         /\ users' = insert_one(users,
                [id |-> nextId, name |-> r.name, email |-> r.email,
                 password |-> hashpw(r.password, salt),
                 q1 |-> r.q1, q2 |-> r.q2, createdAt |-> now])
         /\ nextId' = nextId + 1
         /\ last' = Response("register", 200, r, NoToken, "")
         /\ regd' = regd \cup {r.email}
         /\ gone' = {g \in gone : g[1] # r.email}

register(r, salt) ==
    /\ IF register_lookup(users, r).status # 0
       THEN /\ last' = register_lookup(users, r)
            /\ UNCHANGED <<users, nextId, regd, gone>>
       ELSE register_insert(r, salt)
    /\ UNCHANGED <<now, issued, th>>
    /\ UNCHANGED predictVars

----------------------------------------------------------------------------
\* /login

\* mutant: the password is not checked
login_view_nopw(us, r, t) ==
    IF ~r.hasJson \/ r.email = Missing THEN Crash("login", r)
    ELSE IF find_one(us, r.email) = 0
        THEN Response("login", 401, r, NoToken, "Invalid email or password")
    ELSE IF r.password = Missing THEN Crash("login", r)
    ELSE Response("login", 200, r,
                  jwt_encode(us[find_one(us, r.email)], t + TOKEN_TTL), "")

login_view(us, r, t) ==
    IF ~r.hasJson \/ r.email = Missing THEN Crash("login", r)
    ELSE IF find_one(us, r.email) = 0
        THEN Response("login", 401, r, NoToken, "Invalid email or password")
    ELSE IF r.password = Missing THEN Crash("login", r)
    ELSE IF ~checkpw(r.password, us[find_one(us, r.email)].password)
        THEN Response("login", 401, r, NoToken, "Invalid email or password")
    ELSE Response("login", 200, r,
                  jwt_encode(us[find_one(us, r.email)], t + TOKEN_TTL), "")

login(r) ==
    /\ last' = login_view(users, r, now)
    /\ issued' = IF last'.status = 200 THEN issued \cup {last'.token} ELSE issued
    /\ Cardinality(issued') <= MaxTokens
    /\ UNCHANGED <<users, nextId, now, regd, gone, th>>
    /\ UNCHANGED predictVars

----------------------------------------------------------------------------
\* /forgot-password

\* mutant: the answers are rejected only when both differ
forgot_lookup_both(us, r) ==
    IF ~r.hasJson THEN Crash("forgot", [email |-> r.email, password |-> r.newPass])
    ELSE IF find_one(us, get(r, "email")) = 0
        THEN Response("forgot", 404, [email |-> r.email, password |-> r.newPass], NoToken, "User not found")
    ELSE IF /\ us[find_one(us, get(r, "email"))].q1 # get(r, "q1")
            /\ us[find_one(us, get(r, "email"))].q2 # get(r, "q2")
        THEN Response("forgot", 401, [email |-> r.email, password |-> r.newPass], NoToken, "Security answers do not match")
    ELSE Response("forgot", 0, [email |-> r.email, password |-> r.newPass], NoToken, "")

\* lines 195-206: status 0 stands for "go on to the update"
forgot_lookup(us, r) ==
    IF ~r.hasJson THEN Crash("forgot", [email |-> r.email, password |-> r.newPass])
    ELSE IF find_one(us, get(r, "email")) = 0
        THEN Response("forgot", 404, [email |-> r.email, password |-> r.newPass], NoToken, "User not found")
    ELSE IF \/ us[find_one(us, get(r, "email"))].q1 # get(r, "q1")
            \/ us[find_one(us, get(r, "email"))].q2 # get(r, "q2")
        THEN Response("forgot", 401, [email |-> r.email, password |-> r.newPass], NoToken, "Security answers do not match")
    ELSE Response("forgot", 0, [email |-> r.email, password |-> r.newPass], NoToken, "")

\* lines 208-210
forgot_update(r, salt) ==
    IF get(r, "newPass") = None
    THEN /\ last' = Crash("forgot", [email |-> r.email, password |-> r.newPass])
         /\ UNCHANGED users
    ELSE /\ users' = update_one(users, get(r, "email"), hashpw(r.newPass, salt))
         /\ last' = Response("forgot", 200, [email |-> r.email, password |-> r.newPass], NoToken, "")

forgot_password(r, salt) ==
    /\ IF forgot_lookup(users, r).status # 0
       THEN /\ last' = forgot_lookup(users, r)
            /\ UNCHANGED users
       ELSE forgot_update(r, salt)
    /\ UNCHANGED <<nextId, now, issued, regd, gone, th>>
    /\ UNCHANGED predictVars

----------------------------------------------------------------------------
\* /delete

\* lines 214-221: status 0 stands for "go on to the delete"
delete_lookup(us, r) ==
    IF ~r.hasJson \/ ~truthy(get(r, "email")) \/ ~truthy(get(r, "password"))
        THEN Response("delete", 400, r, NoToken, "Email and password required")
    ELSE IF find_one(us, r.email) = 0
        THEN Response("delete", 401, r, NoToken, "Invalid email or password")
    ELSE IF ~checkpw(r.password, us[find_one(us, r.email)].password)
        THEN Response("delete", 401, r, NoToken, "Invalid email or password")
    ELSE Response("delete", 0, r, NoToken, "")

\* lines 223-224
delete_remove(r, id) ==
    /\ users' = delete_one(users, id)
    /\ last' = Response("delete", 200, r, NoToken, "")
    /\ regd' = regd \ {r.email}
    /\ gone' = gone \cup {<<r.email, r.password>>}

delete_account(r) ==
    /\ IF delete_lookup(users, r).status # 0
       THEN /\ last' = delete_lookup(users, r)
            /\ UNCHANGED <<users, regd, gone>>
       ELSE delete_remove(r, users[find_one(users, r.email)].id)
    /\ UNCHANGED <<nextId, now, issued, th>>
    /\ UNCHANGED predictVars

----------------------------------------------------------------------------
\* GET /users

get_users(token, outcome) ==
    /\ last' = IF login_required(token, outcome).status # 0
               THEN Response("users", login_required(token, outcome).status, NoRequest,
                             token, login_required(token, outcome).err)
               ELSE Response("users", 200, NoRequest, token, "")
    /\ UNCHANGED <<users, nextId, now, issued, regd, gone, th>>
    /\ UNCHANGED predictVars

\* the clock
Tick ==
    /\ now < MaxTime
    /\ now' = now + 1
    /\ UNCHANGED <<users, nextId, issued, last, regd, gone, th>>
    /\ UNCHANGED predictVars

\* The auth routes, one request after another, at one instant of the clock.
Next ==
    \/ \E r \in RegisterBodies, salt \in Salts : register(r, salt)
    \/ \E r \in LoginBodies : login(r)
    \/ \E r \in ForgotBodies, salt \in Salts : forgot_password(r, salt)
    \/ \E r \in DeleteBodies : delete_account(r)

Spec == Init /\ [][Next]_vars

\* The auth routes and GET /users while the clock runs, on well-formed bodies.
ClockRegister == {b \in RegisterComplete : b.password = "p1"}
ClockForgot == {b \in ForgotComplete : b.email = "e1" /\ b.newPass = "p2" /\ b.q1 = "y"}
ClockDelete == [hasJson : {TRUE}, email : Emails, password : Passwords]
NextClock ==
    \/ \E r \in ClockRegister, salt \in Salts : register(r, salt)
    \/ \E r \in LoginComplete : login(r)
    \/ \E r \in ClockForgot, salt \in Salts : forgot_password(r, salt)
    \/ \E r \in ClockDelete : delete_account(r)
    \/ \E token \in Headers : \E outcome \in jwt_decode(token, now) : get_users(token, outcome)
    \/ Tick

SpecClock == Init /\ [][NextClock]_vars

----------------------------------------------------------------------------
\* The auth routes with handlers interleaved: each find_one and the insert /
\* update / delete that follows it are separate atomic store calls.
RaceForgot == {b \in ForgotComplete : b.newPass = "p2" /\ b.q1 = "y"}

Idle == [pc |-> "idle"]

RegisterLookup(t, r) ==
    /\ th[t] = Idle
    /\ IF register_lookup(users, r).status # 0
       THEN /\ last' = register_lookup(users, r)
            /\ UNCHANGED th
       ELSE /\ th' = [th EXCEPT ![t] = [pc |-> "register", req |-> r]]
            /\ UNCHANGED last
    /\ UNCHANGED <<users, nextId, now, issued, regd, gone>>
    /\ UNCHANGED predictVars

RegisterInsert(t, salt) ==
    /\ th[t].pc = "register"
    /\ register_insert(th[t].req, salt)
    /\ th' = [th EXCEPT ![t] = Idle]
    /\ UNCHANGED <<now, issued>>
    /\ UNCHANGED predictVars

ForgotLookup(t, r) ==
    /\ th[t] = Idle
    /\ IF forgot_lookup(users, r).status # 0
       THEN /\ last' = forgot_lookup(users, r)
            /\ UNCHANGED th
       ELSE /\ th' = [th EXCEPT ![t] = [pc |-> "forgot", req |-> r]]
            /\ UNCHANGED last
    /\ UNCHANGED <<users, nextId, now, issued, regd, gone>>
    /\ UNCHANGED predictVars

ForgotUpdate(t, salt) ==
    /\ th[t].pc = "forgot"
    /\ forgot_update(th[t].req, salt)
    /\ th' = [th EXCEPT ![t] = Idle]
    /\ UNCHANGED <<nextId, now, issued, regd, gone>>
    /\ UNCHANGED predictVars

DeleteLookup(t, r) ==
    /\ th[t] = Idle
    /\ IF delete_lookup(users, r).status # 0
       THEN /\ last' = delete_lookup(users, r)
            /\ UNCHANGED th
       ELSE /\ th' = [th EXCEPT ![t] =
                        [pc |-> "delete", req |-> r, id |-> users[find_one(users, r.email)].id]]
            /\ UNCHANGED last
    /\ UNCHANGED <<users, nextId, now, issued, regd, gone>>
    /\ UNCHANGED predictVars

DeleteRemove(t) ==
    /\ th[t].pc = "delete"
    /\ delete_remove(th[t].req, th[t].id)
    /\ th' = [th EXCEPT ![t] = Idle]
    /\ UNCHANGED <<nextId, now, issued>>
    /\ UNCHANGED predictVars

NextRace ==
    \/ \E t \in Threads, r \in RegisterComplete : RegisterLookup(t, r)
    \/ \E t \in Threads, salt \in Salts : RegisterInsert(t, salt)
    \/ \E t \in Threads, r \in RaceForgot : ForgotLookup(t, r)
    \/ \E t \in Threads, salt \in Salts : ForgotUpdate(t, salt)
    \/ \E t \in Threads, r \in ClockDelete : DeleteLookup(t, r)
    \/ \E t \in Threads : DeleteRemove(t)

SpecRace == Init /\ [][NextRace]_vars

----------------------------------------------------------------------------
\* /predict.  A filename is the sequence of its characters.

UPPER == <<"A","B","C","D","E","F","G","H","I","J","K","L","M",
           "N","O","P","Q","R","S","T","U","V","W","X","Y","Z">>
LOWER == <<"a","b","c","d","e","f","g","h","i","j","k","l","m",
           "n","o","p","q","r","s","t","u","v","w","x","y","z">>
DIGITS == <<"0","1","2","3","4","5","6","7","8","9">>
Range(f) == {f[i] : i \in DOMAIN f}

\* str.lower()
lower(str) ==
    [i \in 1..Len(str) |->
        IF \E k \in DOMAIN UPPER : UPPER[k] = str[i]
        THEN LOWER[CHOOSE k \in DOMAIN UPPER : UPPER[k] = str[i]]
        ELSE str[i]]

\* str.rsplit('.', 1)[1]: the text after the last '.'
rsplit_dot(str) ==
    LET dots == {i \in 1..Len(str) : str[i] = "."}
        d == CHOOSE i \in dots : \A j \in dots : j <= i
    IN SubSeq(str, d + 1, Len(str))

ALLOWED_EXTENSIONS == {<<"p","n","g">>, <<"j","p","g">>, <<"j","p","e","g">>}

\* mutant: the extension is compared without lower()
allowed_file_cased(filename) ==
    /\ \E i \in 1..Len(filename) : filename[i] = "."
    /\ rsplit_dot(filename) \in ALLOWED_EXTENSIONS

allowed_file(filename) ==
    /\ \E i \in 1..Len(filename) : filename[i] = "."
    /\ lower(rsplit_dot(filename)) \in ALLOWED_EXTENSIONS

\* werkzeug secure_filename: path separators become spaces, the text is split
\* on whitespace and joined with "_", characters outside [A-Za-z0-9_.-] are
\* removed, and "." and "_" are stripped from both ends.
IsSpace(c) == c \in {" ", "/"}
RECURSIVE JoinWords(_, _, _)
JoinWords(str, i, out) ==
    IF i > Len(str) THEN out
    ELSE IF IsSpace(str[i]) THEN JoinWords(str, i + 1, out)
    ELSE JoinWords(str, i + 1,
            out \o (IF i > 1 /\ IsSpace(str[i-1]) /\ out # <<>> THEN <<"_">> ELSE <<>>)
                \o <<str[i]>>)
SafeChar(c) == c \in Range(UPPER) \cup Range(LOWER) \cup Range(DIGITS) \cup {"_", ".", "-"}
RECURSIVE Strip(_)
Strip(str) ==
    IF str = <<>> THEN str
    ELSE IF Head(str) \in {".", "_"} THEN Strip(Tail(str))
    ELSE IF str[Len(str)] \in {".", "_"} THEN Strip(SubSeq(str, 1, Len(str) - 1))
    ELSE str
secure_filename(filename) == Strip(SelectSeq(JoinWords(filename, 1, <<>>), SafeChar))

classes == <<
    "Tomato_Bacterial_Spot", "Tomato_Early_Blight", "Tomato_Leaf_Mold",
    "Tomato_Septoria_Spot", "Tomato_Yellow_Leaf_Curl", "Tomato_Healthy",
    "Potato_Early_Blight", "Potato_Late_Blight", "Potato_Healthy",
    "Corn_Common_Rust" >>

Info(definition, color, health_status) ==
    [definition |-> definition, color |-> color, health_status |-> health_status]

disease_info ==
    [label \in {"Tomato_Bacterial_Spot", "Tomato_Early_Blight", "Tomato_Leaf_Mold",
                "Tomato_Septoria_Spot", "Tomato_Yellow_Leaf_Curl", "Tomato_Healthy",
                "Potato_Early_Blight", "Potato_Late_Blight", "Potato_Healthy",
                "Corn_Common_Rust"} |->
        CASE label = "Tomato_Bacterial_Spot" -> Info("Bacterial spots on leaves and fruits.", "red", "Unhealthy")
          [] label = "Tomato_Early_Blight" -> Info("Fungal dark spots on older leaves.", "brown", "Unhealthy")
          [] label = "Tomato_Leaf_Mold" -> Info("Yellow spots with mold under leaves.", "orange", "Unhealthy")
          [] label = "Tomato_Septoria_Spot" -> Info("Gray-centered circular spots.", "gray", "Unhealthy")
          [] label = "Tomato_Yellow_Leaf_Curl" -> Info("Curling and yellowing of leaves.", "yellow", "Unhealthy")
          [] label = "Tomato_Healthy" -> Info("Healthy tomato leaf.", "green", "Healthy")
          [] label = "Potato_Early_Blight" -> Info("Brown spots with rings on leaves.", "brown", "Unhealthy")
          [] label = "Potato_Late_Blight" -> Info("Rapid lesions on leaves and stems.", "darkred", "Unhealthy")
          [] label = "Potato_Healthy" -> Info("Healthy potato foliage.", "green", "Healthy")
          [] label = "Corn_Common_Rust" -> Info("Red-brown pustules on corn leaves.", "red", "Unhealthy")]

\* disease_info.get(predicted_class, {...})
disease_info_get(label) ==
    IF label \in DOMAIN disease_info THEN disease_info[label]
    ELSE Info("Unknown disease.", "gray", "Unknown")

\* Uploaded contents: two images PIL can decode and one it cannot.
Decodable == {"imgA", "imgB"}
Images == Decodable \cup {"junk"}
Colliding == { <<"a", ".", "P", "N", "G">>, <<"/", "a", ".", "P", "N", "G">> }
Filenames ==
    Colliding \cup
    { <<"b", " ", "c", ".", "j", "p", "g">>,
      <<"a", ".", "j", "p", "e", "g">>,
      <<"a", ".", "g", "i", "f">>,
      <<"p", "n", "g">>,
      <<"a", ".", "p", "n", "g", ".">> }
NoImagePart == [hasImage |-> FALSE, filename |-> <<>>, image |-> "junk"]
PredictRequests ==
    {NoImagePart}
        \cup [hasImage : {TRUE}, filename : Colliding, image : Images]
        \cup [hasImage : {TRUE}, filename : Filenames \ Colliding, image : {"imgA"}]

\* allowed_file and secure_filename of every filename the requests use,
\* computed once
Allowed == [filename \in Filenames |-> allowed_file(filename)]
Secured == [filename \in Filenames |-> secure_filename(filename)]

\* lines 90-106: the network is trained once, on random data, before serving
Train ==
    /\ weights = <<>>
    /\ weights' \in [Decodable -> DOMAIN classes]
    /\ UNCHANGED <<uploads, pw, pout>>
    /\ UNCHANGED authVars

PredictError(req, status, err) ==
    [status |-> status, image |-> req.image, error |-> err]

\* lines 125-133: the checks and file.save
predict_save(t, req) ==
    /\ weights # <<>>
    /\ pw[t] = Idle
    /\ IF ~req.hasImage
       THEN /\ pout' = PredictError(req, 400, "No image uploaded")
            /\ UNCHANGED <<uploads, pw>>
       ELSE IF ~Allowed[req.filename]
       THEN /\ pout' = PredictError(req, 400, "Unsupported file type")
            /\ UNCHANGED <<uploads, pw>>
       ELSE IF Secured[req.filename] = <<>>
       THEN /\ pout' = PredictError(req, 500, "<html>")
            /\ UNCHANGED <<uploads, pw>>
       ELSE /\ uploads' = (Secured[req.filename] :> req.image) @@ uploads
            /\ pw' = [pw EXCEPT ![t] = [pc |-> "saved", image |-> req.image,
                                        filename |-> Secured[req.filename]]]
            /\ UNCHANGED pout
    /\ UNCHANGED weights
    /\ UNCHANGED authVars

\* lines 135-155: Image.open of the saved path, the forward pass, the response
predict_open(t) ==
    /\ pw[t].pc = "saved"
    /\ LET image == uploads[pw[t].filename]
           predicted_class == classes[weights[image]]
           info == disease_info_get(predicted_class)
       IN pout' =
            IF image \notin Decodable THEN PredictError(pw[t], 500, "<html>")
            ELSE [status |-> 200, image |-> pw[t].image,
                  result |-> predicted_class,
                  definition |-> info.definition,
                  color |-> info.color,
                  healthy |-> (info.health_status = "Healthy"),
                  image_url |-> pw[t].filename]
    /\ pw' = [pw EXCEPT ![t] = Idle]
    /\ UNCHANGED <<weights, uploads>>
    /\ UNCHANGED authVars

NextPredict ==
    \/ Train
    \/ \E t \in Threads, req \in PredictRequests : predict_save(t, req)
    \/ \E t \in Threads : predict_open(t)

SpecPredict == Init /\ [][NextPredict]_vars

----------------------------------------------------------------------------
\* Properties

Outcomes == {"ok", "ExpiredSignatureError", "InvalidTokenError"}
Holders(email) == {i \in 1..Len(users) : users[i].email = email}

\* C1: in every reachable state of the user store no two user records have
\* the same email, whatever the interleaving of /register, /forgot-password
\* and /delete handlers.
C1_UniqueEmails ==
    \A i, j \in 1..Len(users) : i # j => users[i].email # users[j].email

\* C2: a /login with a user's email and current password returns 200 with a
\* token expiring 2 hours after the login; GET /users with that token answers
\* 200 at every time before the expiry instant and 403 at every time after
\* it; GET /users without an Authorization header answers 401.
C2_TokenWindow ==
    [][ /\ \A r \in LoginComplete :
            (last'.op = "login" /\ login(r) /\ \E i \in Holders(r.email) : users[i].password.digest = r.password)
                => /\ last'.status = 200
                   /\ last'.token.kind = "jwt"
                   /\ last'.token.exp = now + 2
                   /\ last'.token \in issued'
        /\ \A token \in issued, outcome \in Outcomes :
            (last'.op = "users" /\ get_users(token, outcome))
                => /\ now < token.exp => last'.status = 200
                   /\ now > token.exp => last'.status = 403
        /\ \A outcome \in Outcomes :
            (last'.op = "users" /\ get_users(NoHeader, outcome)) => last'.status = 401
      ]_vars

\* a token of /login was presented after its expiry instant and answered 403
C2_Witness ==
    /\ last.op = "users" /\ last.status = 403 /\ last.err = "Token expired"
    /\ last.token \in issued
    /\ now > last.token.exp

\* C3: once a /delete with (e, p) has returned 200, every later /login with
\* (e, p) returns 401 and issues no token, until a /register for e succeeds.
C3_DeletedCannotLogin ==
    [][ \A r \in LoginComplete :
            (last'.op = "login" /\ login(r) /\ <<r.email, r.password>> \in gone)
                => /\ last'.status = 401
                   /\ last'.token = NoToken
                   /\ issued' = issued
      ]_vars

\* a /login with the credentials of a deleted account was answered 401
C3_Witness ==
    /\ last.op = "login" /\ last.status = 401
    /\ <<last.email, last.password>> \in gone

\* C4: /forgot-password answers 404 when no record has the email, 401 when
\* a record has it and q1 or q2 differs from the stored answer, and 200 only
\* when a record has it and both answers are equal; a failure leaves the
\* store unchanged and a success changes that record's password and nothing
\* else.
C4_ForgotPassword ==
    [][ \A r \in ForgotBodies, salt \in Salts :
            (/\ last'.op = "forgot" /\ last'.email = r.email /\ last'.password = r.newPass
             /\ r.hasJson
             /\ forgot_password(r, salt))
                => LET hit == Holders(r.email)
                       differ == \E i \in hit : users[i].q1 # r.q1 \/ users[i].q2 # r.q2
                   IN /\ hit = {} => last'.status = 404
                      /\ (hit # {} /\ differ) => last'.status = 401
                      /\ last'.status # 200 => users' = users
                      /\ last'.status = 200 =>
                            /\ hit # {} /\ ~differ
                            /\ Len(users') = Len(users)
                            /\ \A i \in 1..Len(users) :
                                IF i \in hit
                                THEN /\ users'[i].password.digest = r.newPass
                                     /\ [users'[i] EXCEPT !.password = users[i].password] = users[i]
                                ELSE users'[i] = users[i]
      ]_vars

\* a /forgot-password succeeded while another account was in the store
C4_Witness ==
    /\ last.op = "forgot" /\ last.status = 200
    /\ Len(users) = 2
    /\ \E i \in Holders(last.email) : users[i].password.digest = last.password

\* C5: with requests handled one after another, once a /register for e has
\* returned 200 every later /register for e returns 400 'Email already
\* exists' and leaves the store unchanged, until a /delete of e succeeds.
C5_SecondRegister ==
    [][ \A r \in RegisterBodies, salt \in Salts :
            (last'.op = "register" /\ register(r, salt) /\ r.email \in regd)
                => /\ last'.status = 400
                   /\ last'.err = "Email already exists"
                   /\ users' = users
      ]_vars

\* a second /register for a registered email, with another password, was
\* answered 400 and the stored password is still the first one
C5_Witness ==
    /\ last.op = "register" /\ last.status = 400
    /\ last.email \in regd
    /\ \E i \in Holders(last.email) :
        users[i].password.digest # last.password /\ last.password # Missing

\* what GET /users would answer for the token now
Accepted(token) ==
    \A outcome \in jwt_decode(token, now) : login_required(token, outcome).status = 0

\* C6: an issued token stays accepted by GET /users at every time before its
\* expiry whatever happens to the account: no handler step un-accepts it
\* (only the clock does), and it is answered 200 before its expiry.
C6_NoRevocation ==
    [][ /\ \A token \in issued :
            /\ token \in issued'
            /\ (Accepted(token) /\ now' = now) => Accepted(token)'
        /\ \A token \in issued, outcome \in Outcomes :
            (last'.op = "users" /\ get_users(token, outcome) /\ now < token.exp) => last'.status = 200
      ]_vars

\* GET /users answered 200 for the token of an account that has been deleted
C6_Witness ==
    /\ last.op = "users" /\ last.status = 200
    /\ last.token \in issued
    /\ \A i \in 1..Len(users) : users[i].id # last.token.userId

\* C7: a request to /register, /login, /forgot-password or /delete whose
\* JSON body lacks a required field (or is no JSON) is answered 400 with an
\* {error: message} body and leaves the store unchanged.
C7_MissingFields400 ==
    [][ LET validation == /\ last'.status = 400
                          /\ last'.err # "<html>"
                          /\ users' = users
        IN /\ \A r \in RegisterBodies, salt \in Salts :
                (last'.op = "register" /\ register(r, salt) /\ Lacks(r, RegisterFields)) => validation
           /\ \A r \in LoginBodies :
                (last'.op = "login" /\ login(r) /\ Lacks(r, LoginFields)) => validation
           /\ \A r \in ForgotBodies, salt \in Salts :
                (last'.op = "forgot" /\ forgot_password(r, salt) /\ Lacks(r, ForgotFields)) => validation
           /\ \A r \in DeleteBodies :
                (last'.op = "delete" /\ delete_account(r) /\ Lacks(r, DeleteFields)) => validation
      ]_vars

\* C8: /login never modifies the store; it returns 401 with no token when no
\* record has the email or the password does not verify against the record
\* found, and 200 with a token only when the password verifies.
C8_LoginChecksPassword ==
    [][ \A r \in LoginBodies :
            (last'.op = "login" /\ login(r))
                => /\ users' = users
                   /\ r \in LoginComplete =>
                        LET hit == Holders(r.email)
                            verifies == hit # {} /\ users[Min(hit)].password.digest = r.password
                        IN /\ ~verifies => /\ last'.status = 401
                                           /\ last'.token = NoToken
                                           /\ issued' = issued
                           /\ last'.status = 200 => verifies /\ last'.token.kind = "jwt"
      ]_vars

\* a /login with a registered email and a wrong password was answered 401
C8_Witness ==
    /\ last.op = "login" /\ last.status = 401
    /\ \E i \in Holders(last.email) :
        last.password \in Passwords /\ users[i].password.digest # last.password

\* filenames of the requests that C9 expects to be rejected, and the 10 labels
C9_BadNames ==
    { <<"a", ".", "g", "i", "f">>, <<"p", "n", "g">>, <<"a", ".", "p", "n", "g", ".">> }
C9_Labels ==
    {"Tomato_Bacterial_Spot", "Tomato_Early_Blight", "Tomato_Leaf_Mold",
     "Tomato_Septoria_Spot", "Tomato_Yellow_Leaf_Curl", "Tomato_Healthy",
     "Potato_Early_Blight", "Potato_Late_Blight", "Potato_Healthy",
     "Corn_Common_Rust"}
\* C9: /predict answers 400 and writes no file when there is no image part
\* or the filename has no '.' or an extension other than png, jpg, jpeg
\* (case-insensitive); otherwise it is not rejected, and a 200 response holds
\* one of the 10 labels with that label's definition and color from the
\* table, healthy exactly for Tomato_Healthy and Potato_Healthy.
C9_Predict ==
    [][ /\ \A t \in Threads, req \in PredictRequests :
            (/\ pw[t] = Idle
             /\ IF pw'[t] = Idle THEN pout' # pout /\ pout'.status # 200 /\ pout'.image = req.image
                               ELSE pw'[t].image = req.image
             /\ predict_save(t, req))
                => IF ~req.hasImage \/ req.filename \in C9_BadNames
                   THEN pout'.status = 400 /\ uploads' = uploads
                   ELSE pout' = pout /\ pw'[t].pc = "saved"
        /\ \A t \in Threads :
            (pw[t] # Idle /\ pw'[t] = Idle /\ predict_open(t))
                => /\ pout'.status \in {200, 500}
                   /\ uploads[pw[t].filename] \in Decodable => pout'.status = 200
                   /\ pout'.status = 200 =>
                        /\ pout'.result \in C9_Labels
                        /\ pout'.definition = disease_info[pout'.result].definition
                        /\ pout'.color = disease_info[pout'.result].color
                        /\ pout'.definition # "Unknown disease."
                        /\ pout'.healthy <=> pout'.result \in {"Tomato_Healthy", "Potato_Healthy"}
      ]_vars

\* an upload with an upper-case extension was classified as a healthy leaf
C9_Witness ==
    /\ pout.status = 200 /\ pout.healthy
    /\ pout.result = "Potato_Healthy"
    /\ pout.image_url = <<"a", ".", "P", "N", "G">>

\* C10: the label a /predict request returns is the classification of the
\* image uploaded in that same request, for every interleaving.
C10_OwnImage ==
    pout.status = 200 =>
        /\ pout.image \in Decodable
        /\ pout.result = classes[weights[pout.image]]

====
